---- MODULE Spec2Model ----
(***************************************************************************)
(* Tic-tac-toe with move history, time travel and a running win tally.     *)
(* The model follows the Redux-backed game: the gameSlice reducers         *)
(* (makeMove, jumpToMove, resetGame, playAgain), its selectors, the pure   *)
(* calculateWinner, and the Board component's handlers that dispatch to    *)
(* the store.                                                              *)
(***************************************************************************)
EXTENDS Integers, Sequences, FiniteSets

(***************************************************************************)
(* Bounds of the model.                                                    *)
(***************************************************************************)
\* A legal click targets one of the first ClickWindow empty cells (in index
\* order); clicks on occupied cells are never restricted.
ClickWindow == 2
\* Play Again is not taken on a won board once MaxWins rounds have been won.
MaxWins == 2
\* Number of actions dispatched straight to the store in SpecStore.
MaxDispatch == 2
\* Direct jumpToMove payloads range from -MaxOut to History.length-1+MaxOut.
MaxOut == 1

(***************************************************************************)
(* Values.                                                                 *)
(***************************************************************************)
\* null of SquareValue = 'X' | 'O' | null
Null == "null"

SquareValue == {"X", "O", Null}

\* the indices of a squares array
Cells == 0..8

\* Array(9).fill(null)
EmptySquares == [c \in Cells |-> Null]

\* { squares: Array(9).fill(null) }: the record has no position
initialRecord == [squares |-> EmptySquares]

\* faulty variant of lines: the second diagonal is mistyped
lines_typo ==
  << <<0, 1, 2>>, <<3, 4, 5>>, <<6, 7, 8>>,
     <<0, 3, 6>>, <<1, 4, 7>>, <<2, 5, 8>>,
     <<0, 4, 8>>, <<2, 4, 7>> >>

\* the lines table of calculateWinner, in its enumeration order
lines ==
  << <<0, 1, 2>>, <<3, 4, 5>>, <<6, 7, 8>>,
     <<0, 3, 6>>, <<1, 4, 7>>, <<2, 5, 8>>,
     <<0, 4, 8>>, <<2, 4, 6>> >>

\* the body of calculateWinner's for loop from index i on (i is 1-based here)
RECURSIVE winnerFrom(_, _)
winnerFrom(squares, i) ==
  IF i > Len(lines) THEN Null
  ELSE LET a == lines[i][1]
           b == lines[i][2]
           c == lines[i][3]
       IN IF squares[a] # Null /\ squares[a] = squares[b] /\ squares[a] = squares[c]
          THEN squares[a]
          ELSE winnerFrom(squares, i + 1)

calculateWinner(squares) == winnerFrom(squares, 1)

\* JavaScript's remainder: the result takes the sign of the dividend
JsRem(a, b) == IF a >= 0 THEN a % b ELSE 0 - ((0 - a) % b)

Min(a, b) == IF a < b THEN a ELSE b

Max(a, b) == IF a > b THEN a ELSE b

\* Array.prototype.slice(begin, end) on a 0-based array held as a sequence
slice(arr, begin, end) ==
  LET rel(n) == IF n < 0 THEN Max(Len(arr) + n, 0) ELSE Min(n, Len(arr))
  IN SubSeq(arr, rel(begin) + 1, rel(end))

(***************************************************************************)
(* State.                                                                  *)
(***************************************************************************)
VARIABLES
  history,       \* state.game.history (0-based array, here history[k + 1])
  currentMove,   \* state.game.currentMove
  wins,          \* state.game.wins
  xStartsFirst,  \* state.game.xStartsFirst
  lastOp,        \* the action the reducer handled last: its type and payload
  discarded,     \* whether the last makeMove discarded "future" records
  squaresIn,     \* SpecWin: the argument of calculateWinner
  winnerOut,     \* SpecWin: what calculateWinner returned
  dispatched,    \* SpecStore: actions dispatched straight to the store
  board          \* SpecBoth: the useState cells of the component-local Board

gameVars == <<history, currentMove, wins, xStartsFirst>>

vars == <<history, currentMove, wins, xStartsFirst, lastOp, discarded,
          squaresIn, winnerOut, dispatched, board>>

\* history[k] of the source
At(k) == history[k + 1]

(***************************************************************************)
(* Selectors.                                                              *)
(***************************************************************************)
selectCurrentSquares == At(currentMove).squares

\* faulty variant of selectXIsNext: the parities are swapped
selectXIsNext_inverted ==
  IF xStartsFirst THEN JsRem(currentMove, 2) = 1 ELSE JsRem(currentMove, 2) = 0

\* faulty variant of selectXIsNext: the starting-player flag is not read
selectXIsNext_ignoresFlag == JsRem(currentMove, 2) = 0

selectXIsNext ==
  IF xStartsFirst THEN JsRem(currentMove, 2) = 0 ELSE JsRem(currentMove, 2) = 1

(***************************************************************************)
(* Reducers of gameSlice.                                                  *)
(***************************************************************************)
\* faulty variant of makeMove: the future records are kept
makeMove_noTruncate(squares, position) ==
  /\ history' = Append(history, [squares |-> squares, position |-> position])
  /\ currentMove' = Len(history') - 1
  /\ UNCHANGED <<wins, xStartsFirst>>
  /\ lastOp' = [type |-> "makeMove", payload |-> position]
  /\ discarded' = FALSE

\* faulty variant of makeMove: the slice starts at 1
makeMove_sliceFromOne(squares, position) ==
  /\ history' = Append(slice(history, 1, currentMove + 1),
                       [squares |-> squares, position |-> position])
  /\ currentMove' = Len(history') - 1
  /\ UNCHANGED <<wins, xStartsFirst>>
  /\ lastOp' = [type |-> "makeMove", payload |-> position]
  /\ discarded' = (Len(slice(history, 1, currentMove + 1)) + 1 < Len(history))

\* faulty variant of makeMove: currentMove is set to the length
makeMove_lengthAsIndex(squares, position) ==
  /\ history' = Append(slice(history, 0, currentMove + 1),
                       [squares |-> squares, position |-> position])
  /\ currentMove' = Len(history')
  /\ UNCHANGED <<wins, xStartsFirst>>
  /\ lastOp' = [type |-> "makeMove", payload |-> position]
  /\ discarded' = (Len(slice(history, 0, currentMove + 1)) < Len(history))

makeMove(squares, position) ==
  /\ history' = Append(slice(history, 0, currentMove + 1),
                       [squares |-> squares, position |-> position])
  /\ currentMove' = Len(history') - 1
  /\ UNCHANGED <<wins, xStartsFirst>>
  /\ lastOp' = [type |-> "makeMove", payload |-> position]
  /\ discarded' = (Len(slice(history, 0, currentMove + 1)) < Len(history))

\* variant of jumpToMove that ignores an index outside the history
jumpToMove_guarded(index) ==
  /\ currentMove' = IF index \in 0..(Len(history) - 1) THEN index ELSE currentMove
  /\ UNCHANGED <<history, wins, xStartsFirst>>
  /\ lastOp' = [type |-> "jumpToMove", payload |-> index]
  /\ discarded' = FALSE

\* faulty variant of jumpToMove: the records after the index are dropped
jumpToMove_truncates(index) ==
  /\ currentMove' = index
  /\ history' = slice(history, 0, index + 1)
  /\ UNCHANGED <<wins, xStartsFirst>>
  /\ lastOp' = [type |-> "jumpToMove", payload |-> index]
  /\ discarded' = FALSE

jumpToMove(index) ==
  /\ currentMove' = index
  /\ UNCHANGED <<history, wins, xStartsFirst>>
  /\ lastOp' = [type |-> "jumpToMove", payload |-> index]
  /\ discarded' = FALSE

\* faulty variant of resetGame: the tally is cleared as well
resetGame_clearsTally ==
  /\ history' = <<initialRecord>>
  /\ currentMove' = 0
  /\ wins' = [X |-> 0, O |-> 0]
  /\ UNCHANGED xStartsFirst
  /\ lastOp' = [type |-> "resetGame", payload |-> Null]
  /\ discarded' = FALSE

resetGame ==
  /\ history' = <<initialRecord>>
  /\ currentMove' = 0
  /\ UNCHANGED <<wins, xStartsFirst>>
  /\ lastOp' = [type |-> "resetGame", payload |-> Null]
  /\ discarded' = FALSE

\* faulty variant of playAgain: the winner starts the next round
playAgain_winnerStarts(winner) ==
  /\ IF winner # Null
     THEN /\ wins' = IF winner = "X" THEN [wins EXCEPT !.X = @ + 1]
                     ELSE IF winner = "O" THEN [wins EXCEPT !.O = @ + 1]
                     ELSE wins
          /\ xStartsFirst' = (winner = "X")
     ELSE UNCHANGED <<wins, xStartsFirst>>
  /\ history' = <<initialRecord>>
  /\ currentMove' = 0
  /\ lastOp' = [type |-> "playAgain", payload |-> winner]
  /\ discarded' = FALSE

\* faulty variant of playAgain: the flag is assigned outside the if
playAgain_flagAlways(winner) ==
  /\ wins' = IF winner = "X" THEN [wins EXCEPT !.X = @ + 1]
             ELSE IF winner = "O" THEN [wins EXCEPT !.O = @ + 1]
             ELSE wins
  /\ xStartsFirst' = (winner = "O")
  /\ history' = <<initialRecord>>
  /\ currentMove' = 0
  /\ lastOp' = [type |-> "playAgain", payload |-> winner]
  /\ discarded' = FALSE

playAgain(winner) ==
  /\ IF winner # Null
     THEN /\ wins' = IF winner = "X" THEN [wins EXCEPT !.X = @ + 1]
                     ELSE IF winner = "O" THEN [wins EXCEPT !.O = @ + 1]
                     ELSE wins
          /\ xStartsFirst' = (winner = "O")
     ELSE UNCHANGED <<wins, xStartsFirst>>
  /\ history' = <<initialRecord>>
  /\ currentMove' = 0
  /\ lastOp' = [type |-> "playAgain", payload |-> winner]
  /\ discarded' = FALSE

(***************************************************************************)
(* The Board component: what its controls dispatch.                        *)
(***************************************************************************)
\* the cells a click is modelled on: every occupied cell, and the first
\* ClickWindow empty ones
Clickable ==
  LET sq == selectCurrentSquares
  IN {i \in Cells :
        \/ sq[i] # Null
        \/ Cardinality({j \in Cells : j < i /\ sq[j] = Null}) < ClickWindow}

\* faulty variant of handleClick: an occupied cell is not refused
handleClick_noOccupiedCheck(i) ==
  LET currentSquares == selectCurrentSquares
      winner == calculateWinner(currentSquares)
  IN IF winner # Null
     THEN UNCHANGED <<history, currentMove, wins, xStartsFirst, lastOp, discarded>>
     ELSE LET nextSquare ==
                [currentSquares EXCEPT ![i] = IF selectXIsNext THEN "X" ELSE "O"]
          IN makeMove(nextSquare, i)

\* faulty variant of handleClick: a decided board is not refused
handleClick_noWinnerCheck(i) ==
  LET currentSquares == selectCurrentSquares
  IN IF currentSquares[i] # Null
     THEN UNCHANGED <<history, currentMove, wins, xStartsFirst, lastOp, discarded>>
     ELSE LET nextSquare ==
                [currentSquares EXCEPT ![i] = IF selectXIsNext THEN "X" ELSE "O"]
          IN makeMove(nextSquare, i)

handleClick(i) ==
  LET currentSquares == selectCurrentSquares
      winner == calculateWinner(currentSquares)
  IN IF currentSquares[i] # Null \/ winner # Null
     THEN UNCHANGED <<history, currentMove, wins, xStartsFirst, lastOp, discarded>>
     ELSE LET nextSquare ==
                [currentSquares EXCEPT ![i] = IF selectXIsNext THEN "X" ELSE "O"]
          IN makeMove(nextSquare, i)

\* the buttons of the move list: one per record of history
moves == 0..(Len(history) - 1)

\* faulty variant of movePlayer: the parity test is on 0
movePlayer_evenIsFirst(moveIndex) ==
  IF xStartsFirst
  THEN (IF JsRem(moveIndex, 2) = 0 THEN "X" ELSE "O")
  ELSE (IF JsRem(moveIndex, 2) = 0 THEN "O" ELSE "X")

\* the player the move list shows for the entry of history index moveIndex >= 1
movePlayer(moveIndex) ==
  IF xStartsFirst
  THEN (IF JsRem(moveIndex, 2) = 1 THEN "X" ELSE "O")
  ELSE (IF JsRem(moveIndex, 2) = 1 THEN "O" ELSE "X")

\* faulty variant of status: the draw is looked for at index 8
status_drawAtEight ==
  LET winner == calculateWinner(selectCurrentSquares)
  IN IF winner # Null THEN IF winner = "X" THEN "Winner: X" ELSE "Winner: O"
     ELSE IF currentMove = 8 THEN "Draw! No winner."
     ELSE IF selectXIsNext THEN "Next player: X" ELSE "Next player: O"

\* the status message of the Board component
status ==
  LET winner == calculateWinner(selectCurrentSquares)
  IN IF winner # Null THEN IF winner = "X" THEN "Winner: X" ELSE "Winner: O"
     ELSE IF currentMove = 9 THEN "Draw! No winner."
     ELSE IF selectXIsNext THEN "Next player: X" ELSE "Next player: O"

(***************************************************************************)
(* The component-local Board: its state is held in four useState cells,    *)
(* here the fields of board; its functions close over the values of the    *)
(* last render, and the set-calls of one event are applied together.       *)
(***************************************************************************)
\* the initial values of the four useState cells
useState ==
  [history |-> <<[squares |-> EmptySquares]>>,
   currentMove |-> 0,
   wins |-> [X |-> 0, O |-> 0],
   xStartsFirst |-> TRUE]

\* lines of the calculateWinner of the component-local Board, 0-based cells
Board_lines ==
  << <<0, 1, 2>>, <<3, 4, 5>>, <<6, 7, 8>>,
     <<0, 3, 6>>, <<1, 4, 7>>, <<2, 5, 8>>,
     <<0, 4, 8>>, <<2, 4, 6>> >>

RECURSIVE Board_winnerFrom(_, _)
\* the for loop of that calculateWinner, from line index i (1-based here)
Board_winnerFrom(squares, i) ==
  IF i > Len(Board_lines) THEN Null
  ELSE LET a == Board_lines[i][1]
           b == Board_lines[i][2]
           c == Board_lines[i][3]
       IN IF squares[a] # Null /\ squares[a] = squares[b] /\ squares[a] = squares[c]
          THEN squares[a]
          ELSE Board_winnerFrom(squares, i + 1)

Board_calculateWinner(squares) == Board_winnerFrom(squares, 1)

Board_currentSquares == board.history[board.currentMove + 1].squares

Board_xIsNext ==
  IF board.xStartsFirst THEN JsRem(board.currentMove, 2) = 0
                        ELSE JsRem(board.currentMove, 2) = 1

Board_winner == Board_calculateWinner(Board_currentSquares)

\* faulty variant of handlePlay: the future records are kept
Board_handlePlay_keepsFuture(nextSquares, position) ==
  LET nextHistory ==
        Append(board.history, [squares |-> nextSquares, position |-> position])
  IN board' = [board EXCEPT !.history = nextHistory,
                            !.currentMove = Len(nextHistory) - 1]

Board_handlePlay(nextSquares, position) ==
  LET nextHistory ==
        Append(slice(board.history, 0, board.currentMove + 1),
               [squares |-> nextSquares, position |-> position])
  IN board' = [board EXCEPT !.history = nextHistory,
                            !.currentMove = Len(nextHistory) - 1]

Board_jumpTo(move) == board' = [board EXCEPT !.currentMove = move]

Board_handleCLick(i) ==
  IF Board_currentSquares[i] # Null \/ Board_winner # Null
  THEN UNCHANGED board
  ELSE LET nextSquare ==
             [Board_currentSquares EXCEPT ![i] = IF Board_xIsNext THEN "X" ELSE "O"]
       IN Board_handlePlay(nextSquare, i)

\* what the set-calls of resetGame leave in the cells of b
Board_resetGame(b) ==
  [b EXCEPT !.history = <<[squares |-> EmptySquares]>>, !.currentMove = 0]

Board_playAgain ==
  LET winner == Board_winner
      counted == IF winner # Null
                 THEN [board EXCEPT !.wins[winner] = @ + 1,
                                    !.xStartsFirst = (winner = "O")]
                 ELSE board
  IN board' = Board_resetGame(counted)

\* the buttons of the move list of the component-local Board
Board_moves == 0..(Len(board.history) - 1)

\* the status message of the component-local Board
Board_status ==
  LET winner == Board_winner
  IN IF winner # Null THEN IF winner = "X" THEN "Winner: X" ELSE "Winner: O"
     ELSE IF board.currentMove = 9 THEN "Draw! No winner."
     ELSE IF Board_xIsNext THEN "Next player: X" ELSE "Next player: O"

ClickSquare(i) ==
  /\ i \in Clickable
  /\ handleClick(i)
  /\ UNCHANGED <<squaresIn, winnerOut, dispatched, board>>

ClickMove(moveIndex) ==
  /\ jumpToMove(moveIndex)
  /\ UNCHANGED <<squaresIn, winnerOut, dispatched, board>>

\* faulty variant of ClickPlayAgain: the winner is read off the last record
ClickPlayAgain_lastRecord ==
  LET winner == calculateWinner(At(Len(history) - 1).squares)
  IN /\ winner # Null => wins.X + wins.O < MaxWins
     /\ playAgain(winner)
     /\ UNCHANGED <<squaresIn, winnerOut, dispatched, board>>

ClickPlayAgain ==
  LET winner == calculateWinner(selectCurrentSquares)
  IN /\ winner # Null => wins.X + wins.O < MaxWins
     /\ playAgain(winner)
     /\ UNCHANGED <<squaresIn, winnerOut, dispatched, board>>

DispatchResetGame ==
  /\ resetGame
  /\ UNCHANGED <<squaresIn, winnerOut, dispatched, board>>

initialState ==
  /\ history = <<initialRecord>>
  /\ currentMove = 0
  /\ wins = [X |-> 0, O |-> 0]
  /\ xStartsFirst = TRUE

Init ==
  /\ initialState
  /\ lastOp = [type |-> "init", payload |-> Null]
  /\ discarded = FALSE
  /\ squaresIn = EmptySquares
  /\ winnerOut = "pending"
  /\ dispatched = 0
  /\ board = useState

Next ==
  \/ \E i \in Cells : ClickSquare(i)
  \/ \E moveIndex \in moves : ClickMove(moveIndex)
  \/ ClickPlayAgain
  \/ DispatchResetGame

Spec == Init /\ [][Next]_vars

(***************************************************************************)
(* SpecWin: calculateWinner as a pure function, applied to every board of  *)
(* {X, O, null}^9.                                                         *)
(***************************************************************************)
InitWin ==
  /\ initialState
  /\ lastOp = [type |-> "init", payload |-> Null]
  /\ discarded = FALSE
  /\ squaresIn \in [Cells -> SquareValue]
  /\ winnerOut = "pending"
  /\ dispatched = 0
  /\ board = useState

Evaluate ==
  /\ winnerOut = "pending"
  /\ winnerOut' = calculateWinner(squaresIn)
  /\ UNCHANGED <<history, currentMove, wins, xStartsFirst, lastOp, discarded,
                 squaresIn, dispatched, board>>

NextWin == Evaluate

SpecWin == InitWin /\ [][NextWin]_vars

(***************************************************************************)
(* SpecStore: the store without the view's guards.  A round is played cell *)
(* by cell through the click handler, and up to MaxDispatch actions are    *)
(* dispatched straight to the store, with payloads the view would never    *)
(* send.                                                                   *)
(***************************************************************************)
\* history[currentMove] is undefined outside these indices; reading its
\* squares throws, so the component renders nothing that could be clicked
Rendered == currentMove \in moves

\* the click handler on the first empty cell
ClickFirstEmpty ==
  /\ Rendered
  /\ \E i \in Cells :
       /\ selectCurrentSquares[i] = Null
       /\ \A j \in Cells : j < i => selectCurrentSquares[j] # Null
       /\ handleClick(i)
  /\ UNCHANGED <<squaresIn, winnerOut, dispatched, board>>

\* the board a caller that skips the guard of handleClick builds its payload on
directBase ==
  IF Rendered THEN selectCurrentSquares ELSE history[Len(history)].squares

DirectMakeMove(i) ==
  /\ dispatched < MaxDispatch
  /\ makeMove([directBase EXCEPT ![i] = IF selectXIsNext THEN "X" ELSE "O"], i)
  /\ dispatched' = dispatched + 1
  /\ UNCHANGED <<squaresIn, winnerOut, board>>

DirectJumpToMove(index) ==
  /\ dispatched < MaxDispatch
  /\ jumpToMove(index)
  /\ dispatched' = dispatched + 1
  /\ UNCHANGED <<squaresIn, winnerOut, board>>

DirectResetGame ==
  /\ dispatched < MaxDispatch
  /\ resetGame
  /\ dispatched' = dispatched + 1
  /\ UNCHANGED <<squaresIn, winnerOut, board>>

DirectPlayAgain(winner) ==
  /\ dispatched < MaxDispatch
  /\ playAgain(winner)
  /\ dispatched' = dispatched + 1
  /\ UNCHANGED <<squaresIn, winnerOut, board>>

NextStore ==
  \/ ClickFirstEmpty
  \/ \E i \in Cells : DirectMakeMove(i)
  \/ \E index \in (0 - MaxOut)..(Len(history) - 1 + MaxOut) : DirectJumpToMove(index)
  \/ DirectResetGame
  \/ \E winner \in SquareValue : DirectPlayAgain(winner)

SpecStore == Init /\ [][NextStore]_vars

(***************************************************************************)
(* SpecScenario: rounds played towards one of three final boards, any cell *)
(* order that alternating turns allow, each followed by Play Again.        *)
(***************************************************************************)
\* X,O,X,O,O,X,O,X,X on positions 0..8: the full board of the draw scenario
\* as written; X holds its column 2,5,8
WrittenBoard ==
  [c \in Cells |-> IF c \in {0, 2, 5, 7, 8} THEN "X" ELSE "O"]

\* X,O,X,X,O,O,O,X,X on positions 0..8: a full board without a line
DrawBoard ==
  [c \in Cells |-> IF c \in {0, 2, 3, 7, 8} THEN "X" ELSE "O"]

\* X on 0,1,2 and O on 3,4: what the clicks 0,3,1,4,2 leave
TopRowBoard ==
  [c \in Cells |-> IF c \in {0, 1, 2} THEN "X" ELSE IF c \in {3, 4} THEN "O" ELSE Null]

ScenarioBoards == {WrittenBoard, DrawBoard, TopRowBoard}

\* a click on an empty cell after which the board still agrees with a
\* scenario board on every occupied cell
ScenarioClick(i) ==
  /\ selectCurrentSquares[i] = Null
  /\ \E target \in ScenarioBoards :
       LET mark == IF selectXIsNext THEN "X" ELSE "O"
       IN /\ target[i] = mark
          /\ \A c \in Cells :
               selectCurrentSquares[c] # Null => selectCurrentSquares[c] = target[c]
  /\ handleClick(i)
  /\ UNCHANGED <<squaresIn, winnerOut, dispatched, board>>

NextScenario ==
  \/ \E i \in Cells : ScenarioClick(i)
  \/ ClickPlayAgain

SpecScenario == Init /\ [][NextScenario]_vars

(***************************************************************************)
(* SpecBoth: the Redux-backed Board and the component-local Board side by  *)
(* side, each user event (cell click, move-list click, Play Again) given   *)
(* to both.                                                                *)
(***************************************************************************)
BothClickSquare(i) ==
  /\ i \in Clickable
  /\ handleClick(i)
  /\ Board_handleCLick(i)
  /\ UNCHANGED <<squaresIn, winnerOut, dispatched>>

\* a click on an entry that both move lists show
BothClickMove(moveIndex) ==
  /\ moveIndex \in Board_moves
  /\ jumpToMove(moveIndex)
  /\ Board_jumpTo(moveIndex)
  /\ UNCHANGED <<squaresIn, winnerOut, dispatched>>

BothPlayAgain ==
  LET winner == calculateWinner(selectCurrentSquares)
  IN /\ winner # Null => wins.X + wins.O < MaxWins
     /\ playAgain(winner)
     /\ Board_playAgain
     /\ UNCHANGED <<squaresIn, winnerOut, dispatched>>

NextBoth ==
  \/ \E i \in Cells : BothClickSquare(i)
  \/ \E moveIndex \in moves : BothClickMove(moveIndex)
  \/ BothPlayAgain

SpecBoth == Init /\ [][NextBoth]_vars

(***************************************************************************)
(* Vocabulary of the properties, stated without the operators above.       *)
(***************************************************************************)
\* the 8 fixed lines of the 3x3 grid: rows, columns, diagonals
FixedLines ==
  { <<0, 1, 2>>, <<3, 4, 5>>, <<6, 7, 8>>,
    <<0, 3, 6>>, <<1, 4, 7>>, <<2, 5, 8>>,
    <<0, 4, 8>>, <<2, 4, 6>> }

Marks == {"X", "O"}

\* the marks that hold some fixed line of board b completely
CompleteMarks(b) ==
  {m \in Marks : \E l \in FixedLines : b[l[1]] = m /\ b[l[2]] = m /\ b[l[3]] = m}

HasWinner(b) == CompleteMarks(b) # {}

AllEmpty == [c \in 0..8 |-> "null"]

\* the board at current-index
Current == history[currentMove + 1].squares

\* the board of the last record of the history after the step
Appended == history'[Len(history')].squares

\* the turn-parity formula
PlayerToMove(index, flag) ==
  IF flag THEN (IF index % 2 = 0 THEN "X" ELSE "O")
          ELSE (IF index % 2 = 0 THEN "O" ELSE "X")

\* the mark that the move recorded at history index k >= 1 placed
PlacedAt(k) == history[k + 1].squares[history[k + 1].position]

\* a click on cell i that the handler must accept
Legal(i) == Current[i] = "null" /\ ~HasWinner(Current)

(***************************************************************************)
(* C1.  For every board over {X, O, null}^9: when some of the 8 fixed      *)
(* lines holds three identical marks, calculateWinner returns the mark of  *)
(* such a line (that mark, whenever the complete lines agree on it); when  *)
(* no line does, it returns null.                                          *)
(***************************************************************************)
C1_WinChecker ==
  winnerOut # "pending" =>
    IF CompleteMarks(squaresIn) = {}
    THEN winnerOut = "null"
    ELSE winnerOut \in CompleteMarks(squaresIn)

\* calculateWinner returned O for a board whose only complete line is the
\* last of the enumeration, (2,4,6)
C1_Witness ==
  /\ winnerOut = "O"
  /\ CompleteMarks(squaresIn) = {"O"}
  /\ \A l \in FixedLines :
       (\A n \in 1..3 : squaresIn[l[n]] = "O") => l = <<2, 4, 6>>

(***************************************************************************)
(* C2.  A cell click on an empty cell of the current board, with no winner *)
(* present, appends a board that differs from the board at the old         *)
(* current-index in exactly the clicked cell, which goes from null to the  *)
(* mark of the player to move; and in every reachable state each board of  *)
(* the history after index 0 differs from its predecessor in exactly one   *)
(* cell, null to X or O.                                                   *)
(***************************************************************************)
C2_OneCellPerRecord ==
  \A k \in 2..Len(history) :
    LET old == history[k - 1].squares
        new == history[k].squares
        changed == {c \in 0..8 : old[c] # new[c]}
    IN /\ Cardinality(changed) = 1
       /\ \A c \in changed : old[c] = "null" /\ new[c] \in Marks

C2_ClickChangesOneCell ==
  lastOp'.type = "makeMove" =>
    LET i == lastOp'.payload
    IN Legal(i) =>
         /\ Appended[i] = PlayerToMove(currentMove, xStartsFirst)
         /\ \A c \in 0..8 : c # i => Appended[c] = Current[c]

\* C2: every record differs from its predecessor in exactly one cell, null to
\* X or O, and a legal click changes exactly the clicked cell to the mover's mark
C2_ExactlyOneCell ==
  [](C2_OneCellPerRecord) /\ [][C2_ClickChangesOneCell]_vars

\* three moves have been recorded, the last by a click
C2_Witness ==
  /\ lastOp.type = "makeMove"
  /\ Len(history) = 4
  /\ currentMove = 3

(***************************************************************************)
(* C3.  jumpTo(i) followed by a legal click discards every record after    *)
(* index i before appending: the history then has length i+2, its records  *)
(* 0..i are the records 0..i from before the move, record i+1 is the new   *)
(* move, and current-index is i+1.                                         *)
(***************************************************************************)
C3_StepTruncates ==
  (lastOp.type = "jumpToMove" /\ lastOp'.type = "makeMove") =>
    LET i == lastOp.payload
        pos == lastOp'.payload
    IN Legal(pos) =>
         /\ Len(history') = i + 2
         /\ \A k \in 1..(i + 1) : history'[k] = history[k]
         /\ history'[i + 2].position = pos
         /\ history'[i + 2].squares[pos] \in Marks
         /\ history'[i + 2].squares # history[i + 1].squares
         /\ currentMove' = i + 1

\* C3: a legal click after jumpTo(i) leaves records 0..i, appends the move as
\* record i+1 and sets current-index to i+1
C3_TruncateThenAppend == [][C3_StepTruncates]_vars

\* a move has just been made from an earlier index and records were dropped
C3_Witness ==
  /\ lastOp.type = "makeMove"
  /\ discarded
  /\ currentMove = Len(history) - 1

(***************************************************************************)
(* C4.  Play Again: with winner X the tally of X grows by exactly 1, the  *)
(* tally of O is unchanged and the starting-player flag becomes false;     *)
(* with winner O the tally of O grows by exactly 1, the tally of X is      *)
(* unchanged and the flag becomes true; with no winner tally and flag are  *)
(* unchanged; in all three cases the history becomes the single initial    *)
(* record and current-index 0.  The winner passed is the mark that holds a *)
(* line of the current board, or null when none does.                      *)
(***************************************************************************)
C4_StepPlayAgain ==
  lastOp'.type = "playAgain" =>
    LET w == lastOp'.payload
    IN /\ IF HasWinner(Current) THEN w \in CompleteMarks(Current) ELSE w = "null"
       /\ w = "X" => /\ wins'.X = wins.X + 1
                     /\ wins'.O = wins.O
                     /\ xStartsFirst' = FALSE
       /\ w = "O" => /\ wins'.O = wins.O + 1
                     /\ wins'.X = wins.X
                     /\ xStartsFirst' = TRUE
       /\ w = "null" => wins' = wins /\ xStartsFirst' = xStartsFirst
       /\ history' = <<[squares |-> AllEmpty]>>
       /\ currentMove' = 0

\* C4: every Play Again step updates tally and flag by the winner and resets
\* the history to the single initial record
C4_PlayAgain == [][C4_StepPlayAgain]_vars

\* X won a round, then O: the flag went to false and back to true
C4_Witness ==
  /\ lastOp = [type |-> "playAgain", payload |-> "O"]
  /\ wins = [X |-> 1, O |-> 1]
  /\ xStartsFirst = TRUE

(***************************************************************************)
(* C5 (as stated).  In a round whose starting-player flag is true, the     *)
(* moves that produce history indices 1,3,5,7,9 are made by O and those    *)
(* that produce indices 2,4,6,8 by X.                                      *)
(***************************************************************************)
C5_OriginalParity ==
  xStartsFirst =>
    \A k \in 1..(Len(history) - 1) :
      PlacedAt(k) = IF k % 2 = 1 THEN "O" ELSE "X"

(***************************************************************************)
(* C5 (amended).  In a round whose starting-player flag is true, the moves *)
(* that produce history indices 1,3,5,7,9 are made by X and those that     *)
(* produce indices 2,4,6,8 by O.                                           *)
(***************************************************************************)
C5_TurnParity ==
  xStartsFirst =>
    \A k \in 1..(Len(history) - 1) :
      PlacedAt(k) = IF k % 2 = 1 THEN "X" ELSE "O"

\* a round started by X in which index 9 has been produced
C5_Witness ==
  /\ xStartsFirst
  /\ Len(history) = 10
  /\ PlacedAt(9) = "X"

(***************************************************************************)
(* C6.  The player to move depends on current-index and the starting-      *)
(* player flag only: flag true, X on an even index and O on an odd one;    *)
(* flag false, O on an even index and X on an odd one; and the mark a      *)
(* legal cell click writes is this player's mark.                          *)
(***************************************************************************)
C6_SelectorIsFormula ==
  selectXIsNext <=> (PlayerToMove(currentMove, xStartsFirst) = "X")

C6_ClickWritesMover ==
  lastOp'.type = "makeMove" =>
    LET i == lastOp'.payload
    IN Legal(i) =>
         history'[currentMove + 2].squares[i] = PlayerToMove(currentMove, xStartsFirst)

\* C6: the player to move is the parity formula of (current-index, flag), and
\* a legal click writes that player's mark
C6_PlayerToMove == [](C6_SelectorIsFormula) /\ [][C6_ClickWritesMover]_vars

\* with the flag false, a click at an odd index has written X
C6_Witness ==
  /\ ~xStartsFirst
  /\ lastOp.type = "makeMove"
  /\ currentMove = 2
  /\ PlacedAt(1) = "O"
  /\ PlacedAt(2) = "X"

(***************************************************************************)
(* C7 (as stated).  Dispatched straight to the store with an argument that *)
(* violates its precondition (jumpTo with an index outside                 *)
(* [0, History.length-1]; a move onto an occupied cell or onto a board     *)
(* that already has a winner), an operation leaves the whole game state    *)
(* unchanged and current-index still points at a record of the history.    *)
(***************************************************************************)
C7_InvalidJump ==
  /\ dispatched' = dispatched + 1
  /\ lastOp'.type = "jumpToMove"
  /\ lastOp'.payload \notin 0..(Len(history) - 1)

C7_InvalidMove ==
  /\ dispatched' = dispatched + 1
  /\ lastOp'.type = "makeMove"
  /\ currentMove \in 0..(Len(history) - 1)
  /\ ~Legal(lastOp'.payload)

C7_OriginalStep ==
  (C7_InvalidJump \/ C7_InvalidMove) =>
    /\ UNCHANGED <<history, currentMove, wins, xStartsFirst>>
    /\ currentMove' \in 0..(Len(history') - 1)

\* C7 (as stated): an invalid attempt dispatched straight to the store changes
\* nothing
C7_OriginalNoOp == [][C7_OriginalStep]_vars

(***************************************************************************)
(* C7 (amended).  The four store operations are total, but the store does  *)
(* not check its arguments: dispatched straight to the store, jumpTo with  *)
(* an index outside [0, History.length-1] stores that index as             *)
(* current-index (which then points at no record) and leaves the rest      *)
(* unchanged, and a move onto an occupied cell or onto a board that        *)
(* already has a winner is appended like any other move, after truncation  *)
(* to current-index.  Only the view's handlers make an invalid attempt a   *)
(* no-op.                                                                  *)
(***************************************************************************)
C7_AmendedStep ==
  /\ C7_InvalidJump =>
       /\ currentMove' = lastOp'.payload
       /\ currentMove' \notin 0..(Len(history') - 1)
       /\ UNCHANGED <<history, wins, xStartsFirst>>
  /\ C7_InvalidMove =>
       /\ Len(history') = currentMove + 2
       /\ \A k \in 1..(currentMove + 1) : history'[k] = history[k]
       /\ history'[currentMove + 2].position = lastOp'.payload
       /\ history'[currentMove + 2].squares[lastOp'.payload] \in Marks
       /\ currentMove' = currentMove + 1
       /\ UNCHANGED <<wins, xStartsFirst>>

C7_Total ==
  dispatched < MaxDispatch =>
    /\ \A i \in 0..8 : ENABLED DirectMakeMove(i)
    /\ \A index \in (0 - MaxOut)..(Len(history) - 1 + MaxOut) :
         ENABLED DirectJumpToMove(index)
    /\ ENABLED DirectResetGame
    /\ \A w \in {"X", "O", "null"} : ENABLED DirectPlayAgain(w)

\* C7 (amended): every store operation is always applicable, and an invalid
\* jumpTo or move dispatched straight to the store is applied as given
C7_StoreDoesNotValidate == [](C7_Total) /\ [][C7_AmendedStep]_vars

\* an index beyond the history has been stored by a direct jumpToMove
C7_Witness ==
  /\ dispatched >= 1
  /\ lastOp.type = "jumpToMove"
  /\ currentMove >= Len(history)

(***************************************************************************)
(* C8.  An illegal move attempted through the click handler is ignored: a  *)
(* click on a cell that is occupied on the current board, or on any cell   *)
(* while the current board has a winner, leaves history, current-index,    *)
(* tally and flag unchanged; once a round is terminal (winner present, or  *)
(* current-index 9) no cell click changes the state.                       *)
(***************************************************************************)
C8_StepIgnoresIllegal ==
  \/ UNCHANGED <<history, currentMove, wins, xStartsFirst>>
  \/ LET over == HasWinner(Current) \/ currentMove = 9
     IN \A i \in 0..8 : (Current[i] # "null" \/ over) => ~handleClick(i)

\* C8: no step that changes the game state is a click on an occupied cell, on
\* a board with a winner, or at current-index 9
C8_IllegalClickIgnored == [][C8_StepIgnoresIllegal]_vars

\* a decided board that still has an empty cell to click on
C8_Witness ==
  /\ HasWinner(Current)
  /\ \E i \in 0..8 : Current[i] = "null"
  /\ lastOp.type = "makeMove"
  /\ currentMove = Len(history) - 1

(***************************************************************************)
(* C9.  After any sequence of cell clicks, jumpTo, resetRound and          *)
(* startNextRound, History[0] is the all-empty 9-cell board with no        *)
(* recorded position.                                                      *)
(***************************************************************************)
C9_FirstRecordInitial ==
  /\ Len(history) >= 1
  /\ DOMAIN history[1] = {"squares"}
  /\ history[1].squares = AllEmpty

\* a move made after time travel, in a round that follows a won round
C9_Witness ==
  /\ wins.X + wins.O >= 1
  /\ lastOp.type = "makeMove"
  /\ discarded
  /\ Len(history) >= 3

(***************************************************************************)
(* C10.  In every state reached through cell clicks, history-list clicks   *)
(* and Play Again, the history is not empty and                            *)
(* 0 <= current-index <= History.length - 1, so that the current board is  *)
(* defined.                                                                *)
(***************************************************************************)
C10_IndexInRange ==
  /\ Len(history) >= 1
  /\ currentMove \in 0..(Len(history) - 1)
  /\ history[currentMove + 1].squares \in [0..8 -> {"X", "O", "null"}]

\* time travel to the middle of a history
C10_Witness ==
  /\ lastOp.type = "jumpToMove"
  /\ currentMove > 0
  /\ currentMove < Len(history) - 1

(***************************************************************************)
(* C11 (as stated).  End-to-end draw: in a round played by alternating     *)
(* turns after which positions 0..8 hold X,O,X,O,O,X,O,X,X, no line is     *)
(* complete, calculateWinner returns null on the board at index 9, the     *)
(* status shown is the draw status, and Play Again passes null and leaves  *)
(* the tally unchanged.                                                    *)
(***************************************************************************)
C11_Board ==
  [c \in 0..8 |-> <<"X", "O", "X", "O", "O", "X", "O", "X", "X">>[c + 1]]

C11_Played ==
  /\ Len(history) = 10
  /\ currentMove = 9
  /\ Current = C11_Board

C11_AtIndexNine ==
  C11_Played =>
    /\ CompleteMarks(Current) = {}
    /\ calculateWinner(selectCurrentSquares) = "null"
    /\ status = "Draw! No winner."

C11_StepNextRound ==
  (lastOp'.type = "playAgain" /\ C11_Played) =>
    /\ lastOp'.payload = "null"
    /\ wins' = wins

C11_OriginalDraw == [](C11_AtIndexNine) /\ [][C11_StepNextRound]_vars

(***************************************************************************)
(* C11 (amended).  End-to-end draw: in a round played by alternating turns *)
(* in which all 9 cells are filled and no line is completed (positions     *)
(* 0..8 holding X,O,X,X,O,O,O,X,X, for one), calculateWinner returns null  *)
(* on the board at index 9, the status shown is the draw status, and Play  *)
(* Again passes null and leaves the tally unchanged.  The board            *)
(* X,O,X,O,O,X,O,X,X is no such board: X holds its column 2,5,8, so at     *)
(* index 9 calculateWinner returns X, the status names X the winner, and   *)
(* Play Again adds 1 to the tally of X.                                    *)
(***************************************************************************)
C11_FullNoLine ==
  /\ Len(history) = 10
  /\ currentMove = 9
  /\ \A c \in 0..8 : Current[c] # "null"
  /\ CompleteMarks(Current) = {}

C11_AmendedAtIndexNine ==
  /\ C11_FullNoLine =>
       /\ calculateWinner(selectCurrentSquares) = "null"
       /\ status = "Draw! No winner."
  /\ C11_Played =>
       /\ CompleteMarks(Current) = {"X"}
       /\ calculateWinner(selectCurrentSquares) = "X"
       /\ status = "Winner: X"

C11_AmendedStepNextRound ==
  lastOp'.type = "playAgain" =>
    /\ C11_FullNoLine => (lastOp'.payload = "null" /\ wins' = wins)
    /\ C11_Played =>
         /\ lastOp'.payload = "X"
         /\ wins' = [X |-> wins.X + 1, O |-> wins.O]

\* C11 (amended): on a full board without a complete line the winner is null,
\* the status is the draw status and Play Again leaves the tally unchanged
C11_DrawScenario == [](C11_AmendedAtIndexNine) /\ [][C11_AmendedStepNextRound]_vars

\* the ninth move has filled the board X,O,X,X,O,O,O,X,X
C11_Witness ==
  /\ C11_FullNoLine
  /\ lastOp.type = "makeMove"
  /\ Current = [c \in 0..8 |-> <<"X", "O", "X", "X", "O", "O", "O", "X", "X">>[c + 1]]

(***************************************************************************)
(* C12.  End-to-end win: from the initial state (flag true, tally          *)
(* {X:0,O:0}) the cell clicks 0,3,1,4,2 place X,O,X,O,X in that order;     *)
(* calculateWinner then returns X on the current board (top row 0,1,2);    *)
(* Play Again then yields tally {X:1,O:0}, flag false and a history of one *)
(* record.                                                                 *)
(***************************************************************************)
C12_Played ==
  /\ xStartsFirst
  /\ wins = [X |-> 0, O |-> 0]
  /\ Len(history) = 6
  /\ currentMove = 5
  /\ [k \in 1..5 |-> history[k + 1].position] = <<0, 3, 1, 4, 2>>

C12_AfterClicks ==
  C12_Played =>
    /\ [k \in 1..5 |-> PlacedAt(k)] = <<"X", "O", "X", "O", "X">>
    /\ \A c \in 0..8 :
         Current[c] = IF c \in {0, 1, 2} THEN "X" ELSE IF c \in {3, 4} THEN "O" ELSE "null"
    /\ calculateWinner(selectCurrentSquares) = "X"
    /\ status = "Winner: X"

C12_StepNextRound ==
  (lastOp'.type = "playAgain" /\ C12_Played) =>
    /\ lastOp'.payload = "X"
    /\ wins' = [X |-> 1, O |-> 0]
    /\ xStartsFirst' = FALSE
    /\ history' = <<[squares |-> AllEmpty]>>
    /\ currentMove' = 0

\* C12: after the clicks 0,3,1,4,2 the winner is X, and Play Again gives
\* tally {X:1,O:0}, flag false and a one-record history
C12_WinScenario == [](C12_AfterClicks) /\ [][C12_StepNextRound]_vars

\* the five clicks of the scenario have been made in a first round
C12_Witness ==
  /\ C12_Played
  /\ lastOp = [type |-> "makeMove", payload |-> 2]

(***************************************************************************)
(* C13.  jumpTo(index) with 0 <= index < History.length sets current-index *)
(* to index and changes nothing else: the history, the tally and the       *)
(* starting-player flag are unchanged.                                     *)
(***************************************************************************)
C13_StepJump ==
  (lastOp'.type = "jumpToMove" /\ lastOp'.payload \in 0..(Len(history) - 1)) =>
    /\ currentMove' = lastOp'.payload
    /\ history' = history
    /\ wins' = wins
    /\ xStartsFirst' = xStartsFirst

\* C13: a jump to an index of the history changes currentMove only
C13_JumpFrame == [][C13_StepJump]_vars

\* a jump back to index 0 that left a longer history in place
C13_Witness ==
  /\ lastOp = [type |-> "jumpToMove", payload |-> 0]
  /\ currentMove = 0
  /\ Len(history) >= 4

(***************************************************************************)
(* C14.  resetRound replaces the history by the single initial record,     *)
(* sets current-index to 0, and leaves the tally and the starting-player   *)
(* flag unchanged.                                                         *)
(***************************************************************************)
C14_StepReset ==
  lastOp'.type = "resetGame" =>
    /\ history' = <<[squares |-> AllEmpty]>>
    /\ currentMove' = 0
    /\ wins' = wins
    /\ xStartsFirst' = xStartsFirst

\* C14: resetGame leaves one initial record at index 0 and keeps tally and flag
C14_ResetFrame == [][C14_StepReset]_vars

\* a reset in a session where X has won a round and O starts
C14_Witness ==
  /\ lastOp.type = "resetGame"
  /\ wins = [X |-> 1, O |-> 0]
  /\ ~xStartsFirst
  /\ Len(history) = 1

(***************************************************************************)
(* C15.  The losing side starts next: when Play Again is taken while the   *)
(* current board has winner W, the first mark placed in the following      *)
(* round is the other player's, and it stays so in every later round until *)
(* another round is concluded with a winner.                               *)
(***************************************************************************)
C15_Starter == IF xStartsFirst THEN "X" ELSE "O"

\* the move that produces index 1 is the starter's
C15_FirstMarkIsStarter == Len(history) >= 2 => PlacedAt(1) = C15_Starter

\* Play Again on a board won by W makes the other player the starter
C15_StepLoserStarts ==
  (lastOp'.type = "playAgain" /\ HasWinner(Current)) =>
    \A W \in CompleteMarks(Current) : C15_Starter' # W

\* the starter changes in no other step
C15_StepStarterKept ==
  xStartsFirst' # xStartsFirst =>
    (lastOp'.type = "playAgain" /\ HasWinner(Current))

\* C15: the first mark of a round is the starter's, Play Again on a board won
\* by W makes the other player the starter, and nothing else changes the starter
C15_LoserStartsNext ==
  /\ [](C15_FirstMarkIsStarter)
  /\ [][C15_StepLoserStarts /\ C15_StepStarterKept]_vars

\* X has won, and in a later round, begun after a reset, O has placed the
\* first mark
C15_Witness ==
  /\ wins = [X |-> 1, O |-> 0]
  /\ lastOp.type = "makeMove"
  /\ Len(history) = 2
  /\ PlacedAt(1) = "O"

(***************************************************************************)
(* C16.  Draw detection by index is sound: the board at history index k    *)
(* holds exactly k marks, so the history has at most 10 records and        *)
(* current-index is 9 exactly when the current board has no empty cell;    *)
(* the draw status is shown exactly when the current board is full and has *)
(* no winner.                                                              *)
(***************************************************************************)
C16_DrawByIndex ==
  /\ \A k \in 0..(Len(history) - 1) :
       Cardinality({c \in 0..8 : history[k + 1].squares[c] # "null"}) = k
  /\ Len(history) <= 10
  /\ (currentMove = 9) <=> (\A c \in 0..8 : Current[c] # "null")
  /\ (status = "Draw! No winner.") <=>
       ((\A c \in 0..8 : Current[c] # "null") /\ ~HasWinner(Current))

\* a full board without a line, with the draw status shown
C16_Witness ==
  /\ currentMove = 9
  /\ ~HasWinner(Current)
  /\ status = "Draw! No winner."

(***************************************************************************)
(* C17.  No board of the history holds a complete line of X and a complete *)
(* line of O at once, so the winner calculateWinner returns does not       *)
(* depend on the enumeration order of the 8 lines: it is the one mark that *)
(* holds a line, or null.                                                  *)
(***************************************************************************)
C17_OneWinner ==
  \A k \in 1..Len(history) :
    LET b == history[k].squares
        held == CompleteMarks(b)
    IN /\ held # {"X", "O"}
       /\ held = {calculateWinner(b)} \ {"null"}

\* a won board reached by a move made after time travel
C17_Witness ==
  /\ HasWinner(Current)
  /\ lastOp.type = "makeMove"
  /\ discarded

(***************************************************************************)
(* C18.  Only the last record of the history can hold a winning board: for *)
(* every index k < History.length - 1, calculateWinner(history[k].squares) *)
(* is null.                                                                *)
(***************************************************************************)
C18_WinOnlyLast ==
  \A k \in 0..(Len(history) - 2) :
    calculateWinner(history[k + 1].squares) = "null"

\* a won round from which the user has jumped back
C18_Witness ==
  /\ HasWinner(history[Len(history)].squares)
  /\ lastOp.type = "jumpToMove"
  /\ currentMove < Len(history) - 1

(***************************************************************************)
(* C19.  The tally changes only through Play Again and never decreases: a  *)
(* step adds to wins.W, and then exactly 1, only if it is a Play Again     *)
(* taken while the board at current-index holds a complete line of W;      *)
(* every other step (cell click, jumpTo, resetRound, Play Again on a board *)
(* with no winner, also that of a won round the user has jumped back from) *)
(* leaves both entries unchanged.                                          *)
(***************************************************************************)
C19_StepTally ==
  /\ wins' # wins =>
       /\ lastOp'.type = "playAgain"
       /\ \E W \in CompleteMarks(Current) :
            /\ wins'[W] = wins[W] + 1
            /\ \A V \in Marks \ {W} : wins'[V] = wins[V]
  /\ (lastOp'.type = "playAgain" /\ ~HasWinner(Current)) => wins' = wins
  /\ lastOp'.type = "playAgain" => \A c \in 0..8 : history'[1].squares[c] = "null"

\* C19: the tally changes only by +1 for W in a Play Again on a board won by W
C19_TallyOnlyByPlayAgain == [][C19_StepTally]_vars

\* two rounds have been counted for X
C19_Witness ==
  /\ lastOp = [type |-> "playAgain", payload |-> "X"]
  /\ wins = [X |-> 2, O |-> 0]

(***************************************************************************)
(* C20.  The move list never mislabels a move: for every history index     *)
(* k >= 1 the player the view derives for entry k (flag true: X if k is    *)
(* odd, else O; flag false: O if k is odd, else X) is the mark stored at   *)
(* history[k].squares[history[k].position].                                *)
(***************************************************************************)
C20_LabelsMatch ==
  \A k \in 1..(Len(history) - 1) :
    /\ movePlayer(k) = PlacedAt(k)
    /\ movePlayer(k) = IF xStartsFirst THEN (IF k % 2 = 1 THEN "X" ELSE "O")
                                       ELSE (IF k % 2 = 1 THEN "O" ELSE "X")

\* a list of at least four moves in a round that O started
C20_Witness ==
  /\ ~xStartsFirst
  /\ Len(history) >= 5
  /\ PlacedAt(4) = "X"

(***************************************************************************)
(* C21.  The component-local (useState) Board and the Redux-backed Board   *)
(* are the same state machine: started from their initial states and given *)
(* the same user events (cell click i, move-list click k, Play Again),     *)
(* they have equal history, currentMove, wins and xStartsFirst after every *)
(* event, and show the same winner, draw or next-player status.            *)
(***************************************************************************)
C21_SameMachine ==
  /\ board.history = history
  /\ board.currentMove = currentMove
  /\ board.wins = wins
  /\ board.xStartsFirst = xStartsFirst
  /\ Board_status = status

\* in a round O starts after a win of X, both boards have taken a move made
\* after time travel
C21_Witness ==
  /\ board.wins = [X |-> 1, O |-> 0]
  /\ ~board.xStartsFirst
  /\ Len(board.history) = board.currentMove + 1
  /\ board.currentMove >= 1
  /\ lastOp.type = "makeMove"
  /\ discarded

====
